---- MODULE Spec2Model ----
(***************************************************************************)
(* Weather_App backend (src/backend/server.js): the language-model client  *)
(* callGeminiAPI with its retry loop, the weather client fetchWeather, and *)
(* the Express route handlers built on them.                                *)
(***************************************************************************)
EXTENDS Integers, Sequences, FiniteSets, TLC

(* ------------------------------------------------------------------ *)
(* Values                                                              *)
(* ------------------------------------------------------------------ *)

\* JavaScript values that are undefined, null or a string (a sequence of
\* characters), tagged so that any two can be compared.
Undefined == [t |-> "undefined", text |-> <<>>]
Null == [t |-> "null", text |-> <<>>]
Str(s) == [t |-> "string", text |-> s]
\* An object, such as the coordinates { lat, lon }.
Object == [t |-> "object", text |-> <<>>]

\* JavaScript truthiness of such a value: undefined, null and "" are falsy.
Truthy(v) == v.t = "object" \/ (v.t = "string" /\ v.text # <<>>)

\* Handler invocations (requests) that may be in flight.
Reqs == {1, 2}

\* Longest generated text the language-model stub composes freely.
MaxText == 3

\* Characters of generated text: a letter, the space, the two quote characters.
Chars == {"N", " ", "'", "\""}

RECURSIVE SeqsUpTo(_, _)
SeqsUpTo(S, n) ==
    IF n = 0 THEN {<<>>}
    ELSE LET shorter == SeqsUpTo(S, n - 1)
         IN  shorter \cup {Append(s, c) : s \in {t \in shorter : Len(t) = n - 1}, c \in S}

\* The sentinel the extraction prompt asks for, bare, padded and quoted.
NONE == <<"N", "O", "N", "E">>
NoneTexts == {NONE, <<" ">> \o NONE, NONE \o <<" ">>, <<"'">> \o NONE \o <<"'">>}

\* Strings, as sequences of characters.
Texts == SeqsUpTo(Chars, MaxText) \cup NoneTexts

\* A default budget of one attempt more.
DefaultRetriesPlusOne == 3 + 1

\* `retries: number = 3`, the default no caller overrides.
DefaultRetries == 3

\* HTTP statuses the generative-language provider answers with.
GeminiStatuses == {200, 429, 500}

ResponseOk(status) == status \in 200..299

\* The candidates of a parsed response body: each candidate is its first part's
\* text, or Undefined when the candidate carries no content/parts/text.
CandidateTexts == {Undefined} \cup {Str(s) : s \in Texts}
CandidateLists ==
    {<<>>} \cup {<<c>> : c \in CandidateTexts}
           \cup {<<c, Str(<<"O">>)>> : c \in {Str(<<"E">>), Str(<<>>), Undefined}}

\* What `await response.json()` yields: a rejection (the body is not JSON), or
\* the parsed data, with or without a candidates array.
MalformedBody == [json |-> FALSE, hasCandidates |-> FALSE, candidates |-> <<>>]
GeminiBodies ==
    {MalformedBody}
    \cup {[json |-> TRUE, hasCandidates |-> FALSE, candidates |-> <<>>]}
    \cup {[json |-> TRUE, hasCandidates |-> TRUE, candidates |-> cs] : cs \in CandidateLists}

\* Error objects; `at` is the attempt that created the object (its identity).
HttpError(status, n) == [kind |-> "http", status |-> status, at |-> n]
TransportError(n) == [kind |-> "transport", status |-> 0, at |-> n]
ParseError(n) == [kind |-> "parse", status |-> 0, at |-> n]
\* `let lastError;` before any assignment.
NoError == [kind |-> "undefined", status |-> 0, at |-> 0]

(* ------------------------------------------------------------------ *)
(* Weather provider data                                               *)
(* ------------------------------------------------------------------ *)

\* Longest chronological forecast list the weather stub answers with.
MaxList == 7

\* Longest forecast list the stub answers with in an arbitrary order.
MaxShuffled == 3

\* Timestamps (seconds since the epoch) of forecast entries: 06:00 of six
\* consecutive days and of the day one week after the first, and 18:00 of the
\* first two days.
DtValues ==
    {d * 86400 + 6 * 3600 : d \in {0, 1, 2, 3, 4, 5, 7}}
    \cup {d * 86400 + 18 * 3600 : d \in {0, 1}}

\* The elements of a set of numbers in increasing order.
RECURSIVE Ascending(_)
Ascending(S) ==
    IF S = {} THEN <<>>
    ELSE LET least == CHOOSE x \in S : \A y \in S : x <= y
         IN  <<least>> \o Ascending(S \ {least})

\* The timestamps of a list: chronological as the provider sends them, or a
\* short list in any order, repeats included.
DtLists ==
    {Ascending(S) : S \in {T \in SUBSET DtValues : Cardinality(T) <= MaxList}}
    \cup SeqsUpTo(DtValues, MaxShuffled)

\* HTTP statuses the weather provider answers with.
WeatherStatuses == {200, 404, 500}

\* The entry the stub puts at position i of a list: a temperature (tenths of a
\* degree) and a condition that differ from one position to the next, so that
\* an entry of the summary tells which entry of the list it was built from.
ListItem(i, dt) ==
    [dt |-> dt, temp10 |-> 100 + 15 * i, cond |-> IF i % 2 = 1 THEN "Clouds" ELSE "Rain",
     pod |-> IF i % 3 = 1 THEN "d" ELSE "n", wind10 |-> 20 + i, humidity |-> 50 + i,
     complete |-> TRUE]

\* The same entry without its main/weather/sys/wind objects.
Incomplete(item) == [item EXCEPT !.complete = FALSE]

ForecastLists ==
    {[i \in 1..Len(dts) |-> ListItem(i, dts[i])] : dts \in DtLists}

\* What `await response.json()` yields for the forecast endpoint: a rejection,
\* or data with or without `list`, `city` and the city's `name`.
ForecastData(list) ==
    [json |-> TRUE, hasList |-> TRUE, list |-> list, hasCity |-> TRUE, hasName |-> TRUE]

WellFormedPayloads == {ForecastData(l) : l \in ForecastLists}

SomeDts == <<21600, 64800, 108000>>
SomeList == [i \in 1..3 |-> ListItem(i, SomeDts[i])]

MalformedPayloads ==
    { [ForecastData(<<>>) EXCEPT !.json = FALSE, !.hasList = FALSE,
                                 !.hasCity = FALSE, !.hasName = FALSE],
      [ForecastData(<<>>) EXCEPT !.hasList = FALSE],
      [ForecastData(SomeList) EXCEPT !.hasCity = FALSE, !.hasName = FALSE],
      [ForecastData(SomeList) EXCEPT !.hasName = FALSE],
      ForecastData([SomeList EXCEPT ![1] = Incomplete(@)]),
      ForecastData([SomeList EXCEPT ![2] = Incomplete(@)]),
      ForecastData([SomeList EXCEPT ![3] = Incomplete(@)]) }

WeatherPayloads == WellFormedPayloads \cup MalformedPayloads

\* No snapshot (before fetchWeather returns). An empty location stands for
\* `undefined`.
NoSnapshot ==
    [temperature |-> 0, condition |-> "", humidity |-> 0, windSpeed |-> 0,
     isDay |-> FALSE, location |-> "", forecast |-> <<>>, set |-> FALSE]

VARIABLES
    wpc,        \* fetchWeather: where each invocation stands
    wquery,     \* fetchWeather: the kind of `query`, "string" or "coords"
    wlang,      \* fetchWeather: `lang`
    wdata,      \* fetchWeather: `data`, the parsed payload
    wvalue,     \* fetchWeather: the WeatherData returned
    werror,     \* fetchWeather: the message of the error thrown
    wtrace,     \* fetchWeather: the upstream calls made and their outcomes
    gpc,        \* callGeminiAPI: where each invocation stands
    attempt,    \* callGeminiAPI: the loop variable `attempt`
    lastError,  \* callGeminiAPI: the local `lastError`
    gvalue,     \* callGeminiAPI: the value returned
    gerror,     \* callGeminiAPI: the error thrown
    gdata,      \* callGeminiAPI: `data`, the parsed body of the ok response
    gtrace,     \* callGeminiAPI: the sleeps and upstream calls made, in order
    gargs,      \* callGeminiAPI: the arguments of each invocation made for a request
    hpc,        \* route handler: where the handling of each request stands
    sent,       \* the request as the client sent it
    parsed,     \* whether express.json() ran before the handler (req.body is set)
    res,        \* the responses the handler sent, in order
    atrace      \* GET /api/weather: the axios call and its outcome

gvars == <<gpc, attempt, lastError, gvalue, gerror, gdata, gtrace, gargs>>
wvars == <<wpc, wquery, wlang, wdata, wvalue, werror, wtrace>>
hvars == <<hpc, sent, parsed, res, atrace>>
vars == <<gvars, wvars, hvars>>

(* ------------------------------------------------------------------ *)
(* callGeminiAPI                                                       *)
(* ------------------------------------------------------------------ *)

Min(a, b) == IF a < b THEN a ELSE b

\* A backoff that doubles from one second at the first retry.
DelayMsFromOneSecond(n) == Min(1000 * (2 ^ (n - 1)), 5000)

\* Math.min(1000 * Math.pow(2, attempt), 5000)
DelayMs(n) == Min(1000 * (2 ^ n), 5000)

\* The first candidate's text with no `|| null`.
ExtractTextNoFallback(data) ==
    IF ~data.hasCandidates \/ data.candidates = <<>> THEN Null
    ELSE data.candidates[1]

\* data.candidates?.[0]?.content?.parts?.[0]?.text || null
ExtractText(data) ==
    IF ~data.hasCandidates \/ data.candidates = <<>> THEN Null
    ELSE LET text == data.candidates[1]
         IN  IF Truthy(text) THEN text ELSE Null

\* An entry of the record of sleeps, upstream calls and their outcomes.
\* A call carries what lines 167-177 put in the request body: whether
\* systemInstruction and generationConfig (JSON mode) are set.
Ev(kind, n) ==
    [ev |-> kind, attempt |-> n, ms |-> 0, status |-> 0, sys |-> FALSE, json |-> FALSE]
SleepEv(n) == [Ev("sleep", n) EXCEPT !.ms = DelayMs(n)]
CallEv(n, args) == [Ev("call", n) EXCEPT !.sys = args.system, !.json = args.jsonMode]
ReplyEv(n, status) == [Ev("reply", n) EXCEPT !.status = status]
RejectEv(n) == Ev("reject", n)
BodyEv(n, okBody) == Ev(IF okBody THEN "parsed" ELSE "unparsed", n)

\* The arguments of the invocation of request r that is running.
Args(r) == gargs[r][Len(gargs[r])]

\* callGeminiAPI(prompt, systemInstruction, jsonMode) is called:
\* `let lastError;` and `attempt = 0`.
GemArgs(system, jsonMode) == [system |-> system, jsonMode |-> jsonMode]

GemStart(r, args) ==
    /\ gargs' = [gargs EXCEPT ![r] = Append(@, args)]
    /\ gpc' = [gpc EXCEPT ![r] = "loop"]
    /\ attempt' = [attempt EXCEPT ![r] = 0]
    /\ lastError' = [lastError EXCEPT ![r] = NoError]
    /\ gerror' = [gerror EXCEPT ![r] = NoError]
    /\ gvalue' = [gvalue EXCEPT ![r] = Undefined]
    /\ gdata' = [gdata EXCEPT ![r] = MalformedBody]
    /\ gtrace' = [gtrace EXCEPT ![r] = <<>>]

\* A catch block that never retries.
CatchNeverRetries(n) == FALSE

\* Whether the catch block retries: `attempt < retries - 1`.
CatchRetries(n) == n < DefaultRetries - 1

\* Whether a non-ok response is retried without throwing:
\* `response.status === 429 && attempt < retries - 1`.
RateLimitRetries(status, n) == status = 429 /\ n < DefaultRetries - 1

\* Rethrowing what lastError held before the catch block ran.
RethrownStale(error, last) == last

\* The error the catch block rethrows on the last attempt: `throw error`.
Rethrown(error, last) == error

\* catch (error): lastError = error; continue while attempts remain, else rethrow.
Catch(r, error) ==
    /\ lastError' = [lastError EXCEPT ![r] = error]
    /\ IF CatchRetries(attempt[r])
       THEN /\ attempt' = [attempt EXCEPT ![r] = @ + 1]
            /\ gpc' = [gpc EXCEPT ![r] = "loop"]
            /\ UNCHANGED gerror
       ELSE /\ gpc' = [gpc EXCEPT ![r] = "thrown"]
            /\ gerror' = [gerror EXCEPT ![r] = Rethrown(error, lastError[r])]
            /\ UNCHANGED attempt

\* Whether an iteration sleeps before its upstream call: `attempt > 0`.
SleepsFirst(n) == n > 0

\* The loop condition `attempt < retries`.
LoopContinues(n) == n < DefaultRetries

\* The loop head `attempt < retries`, then the start of the try block: the
\* backoff sleep for a retry, or the upstream call at once. Past the loop,
\* `throw lastError`.
GemIterate(r) ==
    /\ gpc[r] = "loop"
    /\ IF LoopContinues(attempt[r])
       THEN /\ IF SleepsFirst(attempt[r])
               THEN /\ gpc' = [gpc EXCEPT ![r] = "sleeping"]
                    /\ gtrace' = [gtrace EXCEPT ![r] = Append(@, SleepEv(attempt[r]))]
               ELSE /\ gpc' = [gpc EXCEPT ![r] = "fetching"]
                    /\ gtrace' = [gtrace EXCEPT ![r] = Append(@, CallEv(attempt[r], Args(r)))]
            /\ UNCHANGED gerror
       ELSE /\ gpc' = [gpc EXCEPT ![r] = "thrown"]
            /\ gerror' = [gerror EXCEPT ![r] = lastError[r]]
            /\ UNCHANGED gtrace
    /\ UNCHANGED <<attempt, lastError, gvalue, gdata, gargs>>

\* The sleep's timer fires; the request body is built and fetch is called.
GemWake(r) ==
    /\ gpc[r] = "sleeping"
    /\ gpc' = [gpc EXCEPT ![r] = "fetching"]
    /\ gtrace' = [gtrace EXCEPT ![r] = Append(@, CallEv(attempt[r], Args(r)))]
    /\ UNCHANGED <<attempt, lastError, gvalue, gerror, gdata, gargs>>

\* fetch rejects (network/transport error): control goes to the catch block.
GemFetchRejects(r) ==
    /\ gpc[r] = "fetching"
    /\ gtrace' = [gtrace EXCEPT ![r] = Append(@, RejectEv(attempt[r]))]
    /\ Catch(r, TransportError(attempt[r]))
    /\ UNCHANGED <<gvalue, gdata, gargs>>

\* fetch resolves with a response. Not ok: a 429 with attempts left records
\* lastError and continues; anything else throws inside the try block, so the
\* catch block handles it. Ok: response.json() is awaited.
GemFetchResponds(r) ==
    /\ gpc[r] = "fetching"
    /\ \E status \in GeminiStatuses :
        /\ gtrace' = [gtrace EXCEPT ![r] = Append(@, ReplyEv(attempt[r], status))]
        /\ IF ~ResponseOk(status)
           THEN IF RateLimitRetries(status, attempt[r])
                THEN /\ lastError' = [lastError EXCEPT ![r] = HttpError(status, attempt[r])]
                     /\ attempt' = [attempt EXCEPT ![r] = @ + 1]
                     /\ gpc' = [gpc EXCEPT ![r] = "loop"]
                     /\ UNCHANGED gerror
                ELSE Catch(r, HttpError(status, attempt[r]))
           ELSE /\ gpc' = [gpc EXCEPT ![r] = "parsing"]
                /\ UNCHANGED <<attempt, lastError, gerror>>
    /\ UNCHANGED <<gvalue, gdata, gargs>>

\* response.json() settles with one of `bodies`: a rejection goes to the catch
\* block, parsed data makes the invocation return the extracted text.
GemJson(r, bodies) ==
    /\ gpc[r] = "parsing"
    /\ \E body \in bodies :
        IF body = MalformedBody
        THEN /\ gtrace' = [gtrace EXCEPT ![r] = Append(@, BodyEv(attempt[r], FALSE))]
             /\ Catch(r, ParseError(attempt[r]))
             /\ UNCHANGED <<gvalue, gdata>>
        ELSE /\ gtrace' = [gtrace EXCEPT ![r] = Append(@, BodyEv(attempt[r], TRUE))]
             /\ gpc' = [gpc EXCEPT ![r] = "returned"]
             /\ gdata' = [gdata EXCEPT ![r] = body]
             /\ gvalue' = [gvalue EXCEPT ![r] = ExtractText(body)]
             /\ UNCHANGED <<attempt, lastError, gerror>>
    /\ UNCHANGED gargs

\* A sleep that keeps the thread until its time is over.
HoldsLoopWhileSleeping(pc) == pc = "sleeping"

\* Whether an invocation standing at `pc` keeps the event loop to itself.
\* sleep(ms) returns a promise that setTimeout resolves, and fetch and
\* response.json() return promises too: each `await` gives the loop back.
HoldsLoop(pc) == FALSE

\* The event loop can run a continuation of request r: no other request's
\* invocation holds it.
Runnable(r) == \A o \in Reqs \ {r} : ~HoldsLoop(gpc[o])

GemStep(r) ==
    \/ GemIterate(r)
    \/ GemWake(r)
    \/ GemFetchRejects(r)
    \/ GemFetchResponds(r)
    \/ GemJson(r, GeminiBodies)

(* ------------------------------------------------------------------ *)
(* fetchWeather                                                        *)
(* ------------------------------------------------------------------ *)

\* Dedup limit of the daily summary: `dailyForecasts.length < 5`.
MaxDays == 5

Weekdays == <<"Thu", "Fri", "Sat", "Sun", "Mon", "Tue", "Wed">>

\* new Date(dt * 1000).toLocaleDateString(locale, { weekday: 'short' }), the
\* server running in UTC: day 0 of the epoch was a Thursday. The ja-JP labels
\* are written as the en-US ones with a "ja:" prefix.
WeekdayLabel(dt, lang) ==
    LET name == Weekdays[((dt \div 86400) % 7) + 1]
    IN  IF lang = "ja" THEN "ja:" \o name ELSE name

\* Math.round of a value given in tenths.
RoundTenths(t10) == (t10 + 5) \div 10

\* Math.round(current.wind.speed * 3.6), the speed given in tenths of m/s.
WindKmh(w10) == (w10 * 36 + 50) \div 100

\* A scan that keeps the latest entry of a day.
KeepsEntryLatest(date, seen, acc) == Len(acc) < MaxDays

\* `!seenDates.has(date) && dailyForecasts.length < 5`
KeepsEntry(date, seen, acc) == date \notin seen /\ Len(acc) < MaxDays

\* data.list.forEach(...): the summary built so far is `acc`, `seen` the labels
\* in seenDates. Reading item.main.temp of an incomplete item throws, which
\* happens only for an entry that is kept.
RECURSIVE ScanForecast(_, _, _, _)
ScanForecast(list, lang, seen, acc) ==
    IF list = <<>> THEN [threw |-> FALSE, forecast |-> acc]
    ELSE LET item == Head(list)
             date == WeekdayLabel(item.dt, lang)
         IN  IF KeepsEntry(date, seen, acc)
             THEN IF ~item.complete
                  THEN [threw |-> TRUE, forecast |-> <<>>]
                  ELSE ScanForecast(Tail(list), lang, seen \cup {date},
                            Append(acc, [date |-> date, temp |-> RoundTenths(item.temp10),
                                         condition |-> item.cond]))
             ELSE ScanForecast(Tail(list), lang, seen, acc)

\* Lines 115-145 on parsed data: the WeatherData returned, or a TypeError
\* (threw) from reading a property of undefined. Reading `name` of a city
\* object that has none throws nothing: the location is undefined.
BuildSnapshot(data, lang) ==
    IF ~data.hasList \/ data.list = <<>> \/ ~data.list[1].complete
    THEN [threw |-> TRUE, value |-> NoSnapshot]
    ELSE LET current == data.list[1]
             scan == ScanForecast(data.list, lang, {}, <<>>)
         IN  IF scan.threw \/ ~data.hasCity
             THEN [threw |-> TRUE, value |-> NoSnapshot]
             ELSE [threw |-> FALSE,
                   value |-> [temperature |-> RoundTenths(current.temp10),
                              condition |-> current.cond,
                              humidity |-> current.humidity,
                              windSpeed |-> WindKmh(current.wind10),
                              isDay |-> current.pod = "d",
                              location |-> IF data.hasName THEN "city" ELSE "",
                              forecast |-> scan.forecast,
                              set |-> TRUE]]

\* const apiLang = lang === 'ja' ? 'ja' : 'en'
ApiLang(lang) == IF lang = "ja" THEN "ja" ELSE "en"

FetchEv(queryKind, lang) ==
    [ev |-> "fetch", by |-> IF queryKind = "string" THEN "q" ELSE "latlon",
     lang |-> ApiLang(lang), status |-> 0]
WReplyEv(status) == [ev |-> "reply", by |-> "", lang |-> "", status |-> status]
WRejectEv == [ev |-> "reject", by |-> "", lang |-> "", status |-> 0]

\* fetchWeather(query, lang) is called: the URL is built and fetch is called.
FwStart(r, queryKind, lang) ==
    /\ wpc' = [wpc EXCEPT ![r] = "fetching"]
    /\ wquery' = [wquery EXCEPT ![r] = queryKind]
    /\ wlang' = [wlang EXCEPT ![r] = lang]
    /\ wtrace' = [wtrace EXCEPT ![r] = Append(@, FetchEv(queryKind, lang))]
    /\ UNCHANGED <<wdata, wvalue, werror>>

\* catch (error): throw new Error("Weather unavailable").
FwThrow(r) ==
    /\ wpc' = [wpc EXCEPT ![r] = "thrown"]
    /\ werror' = [werror EXCEPT ![r] = "Weather unavailable"]
    /\ UNCHANGED wvalue

\* fetch rejects (network/transport error).
FwFetchRejects(r) ==
    /\ wpc[r] = "fetching"
    /\ wtrace' = [wtrace EXCEPT ![r] = Append(@, WRejectEv)]
    /\ FwThrow(r)
    /\ UNCHANGED <<wquery, wlang, wdata>>

\* fetch resolves: a response that is not ok throws "Weather API Error" inside
\* the try block; an ok response has its body read.
FwFetchResponds(r) ==
    /\ wpc[r] = "fetching"
    /\ \E status \in WeatherStatuses :
        /\ wtrace' = [wtrace EXCEPT ![r] = Append(@, WReplyEv(status))]
        /\ IF ~ResponseOk(status)
           THEN FwThrow(r)
           ELSE /\ wpc' = [wpc EXCEPT ![r] = "parsing"]
                /\ UNCHANGED <<wvalue, werror>>
    /\ UNCHANGED <<wquery, wlang, wdata>>

\* response.json() settles with one of `payloads`, and the rest of the try
\* block runs: the snapshot is returned, or a TypeError is caught.
FwJson(r, payloads) ==
    /\ wpc[r] = "parsing"
    /\ \E data \in payloads :
        /\ wdata' = [wdata EXCEPT ![r] = data]
        /\ IF ~data.json
           THEN FwThrow(r)
           ELSE LET built == BuildSnapshot(data, wlang[r])
                IN  IF built.threw
                    THEN FwThrow(r)
                    ELSE /\ wpc' = [wpc EXCEPT ![r] = "returned"]
                         /\ wvalue' = [wvalue EXCEPT ![r] = built.value]
                         /\ UNCHANGED werror
    /\ UNCHANGED <<wquery, wlang, wtrace>>

(* ------------------------------------------------------------------ *)
(* Requests and routing                                                *)
(* ------------------------------------------------------------------ *)

GetWeather == "GET /api/weather"
PostWeather == "POST /api/weather"
ExtractCity == "POST /api/extract-city"
Chat == "POST /api/chat"
\* A path the clients are told of that no `app.post` of the file registers.
Translate == "POST /api/translate"

\* The layers of each Express app in the order the file registers them.
\* Lines 10-19: cors, express.json, then the routes.
JsStack == <<"cors", "json", "GET /", GetWeather>>
\* Lines 217-332: the routes, then cors and express.json.
TsStack == <<"GET /health", PostWeather, ExtractCity, Chat, "cors", "json">>

StackOf(route) == IF route = GetWeather THEN JsStack ELSE TsStack

\* Whether a layer of the app is registered for the route.
Routed(route) == \E i \in DOMAIN StackOf(route) : StackOf(route)[i] = route

\* Express runs the layers in registration order and a route that answers
\* ends the chain: express.json() has set req.body when the handler runs only
\* if it was registered before the route.
JsonRunsBefore(route) ==
    LET stack == StackOf(route)
    IN  \E i, j \in DOMAIN stack : i < j /\ stack[i] = "json" /\ stack[j] = route

\* A city name or free text a client sends.
SomeText == Str(<<"N">>)

\* What a client may send. GET carries `city` in the query string; the POST
\* routes carry a JSON body with any of query, lang, message, weather,
\* history, language, messages, targetLangName.
NoFields ==
    [route |-> "", city |-> Undefined, query |-> Undefined, lang |-> Undefined,
     message |-> Undefined, weather |-> FALSE, history |-> FALSE, language |-> Undefined,
     messages |-> FALSE, targetLangName |-> Undefined]

Requests ==
    {[NoFields EXCEPT !.route = GetWeather, !.city = c] :
        c \in {Undefined, Str(<<>>), SomeText}}
    \cup {[NoFields EXCEPT !.route = PostWeather, !.query = q, !.lang = l] :
        q \in {Undefined, Str(<<>>), SomeText, Object},
        l \in {Undefined, Str(<<"e", "n">>), Str(<<"j", "a">>)}}
    \cup {[NoFields EXCEPT !.route = ExtractCity, !.query = q] :
        q \in {Undefined, Str(<<>>), SomeText}}
    \cup {[NoFields EXCEPT !.route = Chat, !.message = m, !.weather = w,
                           !.history = h, !.language = l] :
        m \in {Undefined, SomeText}, w \in BOOLEAN, h \in BOOLEAN,
        l \in {Undefined, Str(<<"e", "n">>)}}
    \cup {[NoFields EXCEPT !.route = Translate, !.messages = TRUE, !.targetLangName = t] :
        t \in {Undefined, SomeText}}

NoResponseBody ==
    [kind |-> "", error |-> "", city |-> Undefined, text |-> Undefined,
     weather |-> NoSnapshot]

\* res.status(status).json({ error: message })
ErrorResponse(status, message) ==
    [status |-> status, body |-> [NoResponseBody EXCEPT !.kind = "error", !.error = message]]

\* const { ... } = req.body with req.body undefined throws this TypeError.
DestructureMessage == "Cannot destructure property of 'req.body' as it is undefined."

\* A response sent without the `return` that ends the handler.
RespondAndGoOn(r, response) ==
    /\ res' = [res EXCEPT ![r] = Append(@, response)]
    /\ UNCHANGED hpc

\* `return res.status(..).json(..)`, or res.json(..) as the last statement of
\* its path: the response is sent and the handler is over.
Respond(r, response) ==
    /\ res' = [res EXCEPT ![r] = Append(@, response)]
    /\ hpc' = [hpc EXCEPT ![r] = "done"]

\* A request reaches its route handler. Through the app, req.body is what the
\* layers before the route made of it; a handler called directly (there is one
\* for a routed request only) may be given either.
Arrive(r, throughApp) ==
    /\ hpc[r] = "none"
    /\ \E q \in Requests, direct \in BOOLEAN :
        /\ throughApp \/ Routed(q.route)
        /\ sent' = [sent EXCEPT ![r] = q]
        /\ parsed' = [parsed EXCEPT ![r] =
                        IF throughApp \/ q.route = GetWeather
                        THEN JsonRunsBefore(q.route)
                        ELSE direct]
    /\ hpc' = [hpc EXCEPT ![r] = "entered"]
    /\ UNCHANGED <<res, atrace>>

\* No layer of the stack answers the request: it passes the routes, cors and
\* express.json, and Express's final handler answers 404.
Unrouted(r) ==
    /\ hpc[r] = "entered"
    /\ ~Routed(sent[r].route)
    /\ Respond(r, ErrorResponse(404, "Cannot POST /api/translate"))
    /\ UNCHANGED <<sent, parsed, atrace>>

(* ------------------------------------------------------------------ *)
(* GET /api/weather                                                    *)
(* ------------------------------------------------------------------ *)

\* What axios.get settles with: a rejection without a response (transport),
\* a rejection carrying the non-2xx status, or a 2xx whose data has or lacks
\* the objects the handler reads (sys, main, weather[0], wind).
AxiosOutcomes ==
    {[ev |-> "reject", status |-> 0, complete |-> FALSE]}
    \cup {[ev |-> "status", status |-> st, complete |-> FALSE] : st \in {404, 500}}
    \cup {[ev |-> "data", status |-> 200, complete |-> c] : c \in BOOLEAN}

AxiosGetEv == [ev |-> "get", status |-> 0, complete |-> FALSE]

\* catch (error): error.response?.status === 404 answers 404, anything else 500.
CatchStatus(outcome) == IF outcome.ev = "status" /\ outcome.status = 404 THEN 404 ELSE 500

\* Lines 20-29: `!city` answers 400, else the upstream call is made.
GetWeatherEntry(r) ==
    /\ hpc[r] = "entered"
    /\ sent[r].route = GetWeather
    /\ IF ~Truthy(sent[r].city)
       THEN /\ Respond(r, ErrorResponse(400, "City is required"))
            /\ UNCHANGED atrace
       ELSE /\ hpc' = [hpc EXCEPT ![r] = "awaitAxios"]
            /\ atrace' = [atrace EXCEPT ![r] = Append(@, AxiosGetEv)]
            /\ UNCHANGED res
    /\ UNCHANGED <<sent, parsed>>

\* Lines 29-49: axios.get settles. Complete data is reshaped and sent; data
\* lacking an object throws a TypeError while the response object is built,
\* which the catch block answers like any error.
GetWeatherSettles(r) ==
    /\ hpc[r] = "awaitAxios"
    /\ \E outcome \in AxiosOutcomes :
        /\ atrace' = [atrace EXCEPT ![r] = Append(@, outcome)]
        /\ IF outcome.ev = "data" /\ outcome.complete
           THEN Respond(r, [status |-> 200, body |-> [NoResponseBody EXCEPT !.kind = "current"]])
           ELSE IF CatchStatus(outcome) = 404
                THEN Respond(r, ErrorResponse(404, "City not found"))
                ELSE Respond(r, ErrorResponse(500, "Failed to fetch weather data"))
    /\ UNCHANGED <<sent, parsed>>

(* ------------------------------------------------------------------ *)
(* POST /api/weather                                                   *)
(* ------------------------------------------------------------------ *)

\* `lang = 'en'` in the destructuring: the default applies to undefined.
LangOf(v) == IF v.t = "undefined" THEN "en" ELSE IF v.text = <<"j", "a">> THEN "ja" ELSE "en"

\* typeof query === 'string'
QueryKind(v) == IF v.t = "string" THEN "string" ELSE "coords"

\* Lines 223-230: destructuring req.body, `!query` answers 400, else
\* fetchWeather is called.
PostWeatherEntry(r) ==
    /\ hpc[r] = "entered"
    /\ sent[r].route = PostWeather
    /\ IF ~parsed[r]
       THEN /\ Respond(r, ErrorResponse(500, DestructureMessage))
            /\ UNCHANGED wvars
       ELSE IF ~Truthy(sent[r].query)
            THEN /\ Respond(r, ErrorResponse(400, "Query is required"))
                 /\ UNCHANGED wvars
            ELSE /\ hpc' = [hpc EXCEPT ![r] = "awaitWeather"]
                 /\ FwStart(r, QueryKind(sent[r].query), LangOf(sent[r].lang))
                 /\ UNCHANGED res
    /\ UNCHANGED <<sent, parsed, atrace>>

\* Lines 230-235: fetchWeather settled: res.json(weatherData), or the catch
\* block's 500 with the error's message.
PostWeatherResumes(r) ==
    /\ hpc[r] = "awaitWeather"
    /\ wpc[r] \in {"returned", "thrown"}
    /\ IF wpc[r] = "returned"
       THEN Respond(r, [status |-> 200,
                        body |-> [NoResponseBody EXCEPT !.kind = "weather", !.weather = wvalue[r]]])
       ELSE Respond(r, ErrorResponse(500, werror[r]))
    /\ UNCHANGED <<sent, parsed, atrace>>

(* ------------------------------------------------------------------ *)
(* POST /api/extract-city                                              *)
(* ------------------------------------------------------------------ *)

Quotes == {"'", "\""}

RECURSIVE TrimLeft(_)
TrimLeft(s) == IF s # <<>> /\ Head(s) = " " THEN TrimLeft(Tail(s)) ELSE s

RECURSIVE TrimRight(_)
TrimRight(s) ==
    IF s # <<>> /\ s[Len(s)] = " " THEN TrimRight(SubSeq(s, 1, Len(s) - 1)) ELSE s

\* String.prototype.trim
Trim(s) == TrimRight(TrimLeft(s))

\* .replace(/['"]/g, ''): every quote character goes, wherever it stands.
StripQuotes(s) == SelectSeq(s, LAMBDA c : c \notin Quotes)

\* res.json({ city })
CityResponse(city) ==
    [status |-> 200, body |-> [NoResponseBody EXCEPT !.kind = "city", !.city = city]]

\* Lines 250-255: the city answered for the language model's result.
CityOf(result) ==
    IF result = Str(NONE) \/ ~Truthy(result)
    THEN Null
    ELSE Str(StripQuotes(Trim(result.text)))

\* Lines 240-248: destructuring req.body (a TypeError is answered by the catch
\* block with a null city), `!query` answers 400, else callGeminiAPI(prompt).
ExtractCityEntry(r) ==
    /\ hpc[r] = "entered"
    /\ sent[r].route = ExtractCity
    /\ IF ~parsed[r]
       THEN /\ Respond(r, CityResponse(Null))
            /\ UNCHANGED gvars
       ELSE IF ~Truthy(sent[r].query)
            THEN /\ Respond(r, ErrorResponse(400, "Query is required"))
                 /\ UNCHANGED gvars
            ELSE /\ hpc' = [hpc EXCEPT ![r] = "awaitGemini"]
                 /\ GemStart(r, GemArgs(FALSE, FALSE))
                 /\ UNCHANGED res
    /\ UNCHANGED <<sent, parsed, atrace>>

\* Lines 248-259: callGeminiAPI settled.
ExtractCityResumes(r) ==
    /\ hpc[r] = "awaitGemini"
    /\ sent[r].route = ExtractCity
    /\ gpc[r] \in {"returned", "thrown"}
    /\ IF gpc[r] = "thrown"
       THEN Respond(r, CityResponse(Null))
       ELSE Respond(r, CityResponse(CityOf(gvalue[r])))
    /\ UNCHANGED <<sent, parsed, atrace>>

(* ------------------------------------------------------------------ *)
(* POST /api/chat                                                      *)
(* ------------------------------------------------------------------ *)

\* error.message of what callGeminiAPI throws.
ErrorMessage(error) ==
    IF error.kind = "http"
    THEN (IF error.status = 429 THEN "Gemini API Error: 429" ELSE "Gemini API Error: 500")
    ELSE IF error.kind = "transport" THEN "fetch failed"
    ELSE "Unexpected token in JSON"

\* res.json({ text: aiResponse })
TextResponse(text) ==
    [status |-> 200, body |-> [NoResponseBody EXCEPT !.kind = "text", !.text = text]]

\* Lines 264-317: destructuring req.body, `!message` answers 400, else the
\* system prompt is assembled from weather, history and language, and
\* callGeminiAPI(message, systemPrompt) is called.
ChatEntry(r) ==
    /\ hpc[r] = "entered"
    /\ sent[r].route = Chat
    /\ IF ~parsed[r]
       THEN /\ Respond(r, ErrorResponse(500, DestructureMessage))
            /\ UNCHANGED gvars
       ELSE IF ~Truthy(sent[r].message)
            THEN /\ Respond(r, ErrorResponse(400, "Message is required"))
                 /\ UNCHANGED gvars
            ELSE /\ hpc' = [hpc EXCEPT ![r] = "awaitGemini"]
                 /\ GemStart(r, GemArgs(TRUE, FALSE))
                 /\ UNCHANGED res
    /\ UNCHANGED <<sent, parsed, atrace>>

\* Lines 317-327: callGeminiAPI settled.
ChatResumes(r) ==
    /\ hpc[r] = "awaitGemini"
    /\ sent[r].route = Chat
    /\ gpc[r] \in {"returned", "thrown"}
    /\ IF gpc[r] = "thrown"
       THEN Respond(r, ErrorResponse(500, ErrorMessage(gerror[r])))
       ELSE IF ~Truthy(gvalue[r])
            THEN Respond(r, ErrorResponse(500, "No response from AI"))
            ELSE Respond(r, TextResponse(gvalue[r]))
    /\ UNCHANGED <<sent, parsed, atrace>>

(* ------------------------------------------------------------------ *)
(* Specification: one direct invocation of fetchWeather                *)
(* ------------------------------------------------------------------ *)

GemIdle ==
    /\ gpc = [r \in Reqs |-> "idle"]
    /\ attempt = [r \in Reqs |-> 0]
    /\ lastError = [r \in Reqs |-> NoError]
    /\ gvalue = [r \in Reqs |-> Undefined]
    /\ gerror = [r \in Reqs |-> NoError]
    /\ gdata = [r \in Reqs |-> MalformedBody]
    /\ gtrace = [r \in Reqs |-> <<>>]
    /\ gargs = [r \in Reqs |-> <<>>]

NoRequests ==
    /\ hpc = [r \in Reqs |-> "none"]
    /\ sent = [r \in Reqs |-> NoFields]
    /\ parsed = [r \in Reqs |-> FALSE]
    /\ res = [r \in Reqs |-> <<>>]
    /\ atrace = [r \in Reqs |-> <<>>]

FwIdle ==
    /\ wpc = [r \in Reqs |-> "idle"]
    /\ wquery = [r \in Reqs |-> "string"]
    /\ wlang = [r \in Reqs |-> "en"]
    /\ wdata = [r \in Reqs |-> ForecastData(<<>>)]
    /\ wvalue = [r \in Reqs |-> NoSnapshot]
    /\ werror = [r \in Reqs |-> ""]
    /\ wtrace = [r \in Reqs |-> <<>>]

\* fetchWeather(query, lang) called with a city name or coordinates.
FwInit ==
    /\ GemIdle
    /\ NoRequests
    /\ \E queryKind \in {"string", "coords"}, lang \in {"en", "ja"} :
        /\ wpc = [r \in Reqs |-> IF r = 1 THEN "fetching" ELSE "idle"]
        /\ wquery = [r \in Reqs |-> queryKind]
        /\ wlang = [r \in Reqs |-> lang]
        /\ wtrace = [r \in Reqs |-> IF r = 1 THEN <<FetchEv(queryKind, lang)>> ELSE <<>>]
    /\ wdata = [r \in Reqs |-> ForecastData(<<>>)]
    /\ wvalue = [r \in Reqs |-> NoSnapshot]
    /\ werror = [r \in Reqs |-> ""]

FwNext ==
    \/ \E r \in Reqs : FwFetchRejects(r) /\ UNCHANGED <<gvars, hvars>>
    \/ \E r \in Reqs : FwFetchResponds(r) /\ UNCHANGED <<gvars, hvars>>
    \/ \E r \in Reqs : FwJson(r, WeatherPayloads) /\ UNCHANGED <<gvars, hvars>>

SpecForecast == FwInit /\ [][FwNext]_vars

(* ------------------------------------------------------------------ *)
(* Specification: one direct invocation of callGeminiAPI               *)
(* ------------------------------------------------------------------ *)

\* callGeminiAPI(prompt, systemInstruction?, jsonMode?) called once.
GemInit ==
    /\ FwIdle
    /\ NoRequests
    /\ \E system \in BOOLEAN, jsonMode \in BOOLEAN :
        gargs = [r \in Reqs |-> IF r = 1 THEN <<GemArgs(system, jsonMode)>> ELSE <<>>]
    /\ gpc = [r \in Reqs |-> IF r = 1 THEN "loop" ELSE "idle"]
    /\ attempt = [r \in Reqs |-> 0]
    /\ lastError = [r \in Reqs |-> NoError]
    /\ gvalue = [r \in Reqs |-> Undefined]
    /\ gerror = [r \in Reqs |-> NoError]
    /\ gdata = [r \in Reqs |-> MalformedBody]
    /\ gtrace = [r \in Reqs |-> <<>>]

GemNext ==
    \/ \E r \in Reqs : GemIterate(r) /\ UNCHANGED <<wvars, hvars>>
    \/ \E r \in Reqs : GemWake(r) /\ UNCHANGED <<wvars, hvars>>
    \/ \E r \in Reqs : GemFetchRejects(r) /\ UNCHANGED <<wvars, hvars>>
    \/ \E r \in Reqs : GemFetchResponds(r) /\ UNCHANGED <<wvars, hvars>>
    \/ \E r \in Reqs : GemJson(r, GeminiBodies) /\ UNCHANGED <<wvars, hvars>>

SpecGemini == GemInit /\ [][GemNext]_vars

(* ------------------------------------------------------------------ *)
(* Specification: the two apps serving requests                         *)
(* ------------------------------------------------------------------ *)

AppInit == GemIdle /\ FwIdle /\ NoRequests

\* Requests arrive through Express, any number at a time. What the handlers
\* can do from there: the POST handlers end in their entry step (req.body is
\* undefined), so only GET /api/weather goes on to its upstream call.
Next ==
    \/ \E r \in Reqs : Arrive(r, TRUE) /\ UNCHANGED <<gvars, wvars>>
    \/ \E r \in Reqs : Unrouted(r) /\ UNCHANGED <<gvars, wvars>>
    \/ \E r \in Reqs : GetWeatherEntry(r) /\ UNCHANGED <<gvars, wvars>>
    \/ \E r \in Reqs : GetWeatherSettles(r) /\ UNCHANGED <<gvars, wvars>>
    \/ \E r \in Reqs : PostWeatherEntry(r) /\ UNCHANGED gvars
    \/ \E r \in Reqs : ExtractCityEntry(r) /\ UNCHANGED wvars
    \/ \E r \in Reqs : ChatEntry(r) /\ UNCHANGED wvars

Spec == AppInit /\ [][Next]_vars

(* ------------------------------------------------------------------ *)
(* Specification: one handler called with a request object              *)
(* ------------------------------------------------------------------ *)

\* A few forecast payloads for the handlers' upstream.
SamplePayloads == MalformedPayloads \cup {ForecastData(<<>>), ForecastData(SomeList)}

\* The handler of request 1 is called with req.body set or not, and runs to
\* its response together with the client it awaits.
HandlerNext ==
    \/ Arrive(1, FALSE) /\ UNCHANGED <<gvars, wvars>>
    \/ \E r \in Reqs : GetWeatherEntry(r) /\ UNCHANGED <<gvars, wvars>>
    \/ \E r \in Reqs : GetWeatherSettles(r) /\ UNCHANGED <<gvars, wvars>>
    \/ \E r \in Reqs : PostWeatherEntry(r) /\ UNCHANGED gvars
    \/ \E r \in Reqs : PostWeatherResumes(r) /\ UNCHANGED <<gvars, wvars>>
    \/ \E r \in Reqs : FwFetchRejects(r) /\ UNCHANGED <<gvars, hvars>>
    \/ \E r \in Reqs : FwFetchResponds(r) /\ UNCHANGED <<gvars, hvars>>
    \/ \E r \in Reqs : FwJson(r, SamplePayloads) /\ UNCHANGED <<gvars, hvars>>
    \/ \E r \in Reqs : ExtractCityEntry(r) /\ UNCHANGED wvars
    \/ \E r \in Reqs : ExtractCityResumes(r) /\ UNCHANGED <<gvars, wvars>>
    \/ \E r \in Reqs : ChatEntry(r) /\ UNCHANGED wvars
    \/ \E r \in Reqs : ChatResumes(r) /\ UNCHANGED <<gvars, wvars>>
    \/ \E r \in Reqs : GemIterate(r) /\ UNCHANGED <<wvars, hvars>>
    \/ \E r \in Reqs : GemWake(r) /\ UNCHANGED <<wvars, hvars>>
    \/ \E r \in Reqs : GemFetchRejects(r) /\ UNCHANGED <<wvars, hvars>>
    \/ \E r \in Reqs : GemFetchResponds(r) /\ UNCHANGED <<wvars, hvars>>
    \/ \E r \in Reqs : GemJson(r, GeminiBodies) /\ UNCHANGED <<wvars, hvars>>

SpecHandler == AppInit /\ [][HandlerNext]_vars

(* ------------------------------------------------------------------ *)
(* Specification: two handlers running at the same time                 *)
(* ------------------------------------------------------------------ *)

\* The requests of two clients that each lead to an upstream call.
ConcurrentRequests ==
    {q \in Requests :
        /\ q.route \in {PostWeather, ExtractCity, Chat}
        /\ IF q.route = Chat THEN q.message = SomeText ELSE q.query = SomeText
        /\ ~q.weather /\ ~q.history /\ ~Truthy(q.language) /\ ~Truthy(q.lang)}

\* A few response bodies of the generative-language provider.
SampleBodies ==
    {MalformedBody,
     [json |-> TRUE, hasCandidates |-> FALSE, candidates |-> <<>>],
     [json |-> TRUE, hasCandidates |-> TRUE, candidates |-> <<SomeText>>],
     [json |-> TRUE, hasCandidates |-> TRUE, candidates |-> <<Str(NONE)>>]}

\* The handler of request r is called with req.body set.
ArriveParsed(r) ==
    /\ hpc[r] = "none"
    /\ \E q \in ConcurrentRequests : sent' = [sent EXCEPT ![r] = q]
    /\ parsed' = [parsed EXCEPT ![r] = TRUE]
    /\ hpc' = [hpc EXCEPT ![r] = "entered"]
    /\ UNCHANGED <<res, atrace>>

\* Node runs one continuation at a time, each to its next `await`; which
\* request's promise settles next is up to the timers and the network.
ConcurrentNext ==
    \/ \E r \in Reqs : Runnable(r) /\ ArriveParsed(r) /\ UNCHANGED <<gvars, wvars>>
    \/ \E r \in Reqs : Runnable(r) /\ PostWeatherEntry(r) /\ UNCHANGED gvars
    \/ \E r \in Reqs : Runnable(r) /\ PostWeatherResumes(r) /\ UNCHANGED <<gvars, wvars>>
    \/ \E r \in Reqs : Runnable(r) /\ FwFetchRejects(r) /\ UNCHANGED <<gvars, hvars>>
    \/ \E r \in Reqs : Runnable(r) /\ FwFetchResponds(r) /\ UNCHANGED <<gvars, hvars>>
    \/ \E r \in Reqs : Runnable(r) /\ FwJson(r, SamplePayloads) /\ UNCHANGED <<gvars, hvars>>
    \/ \E r \in Reqs : Runnable(r) /\ ExtractCityEntry(r) /\ UNCHANGED wvars
    \/ \E r \in Reqs : Runnable(r) /\ ExtractCityResumes(r) /\ UNCHANGED <<gvars, wvars>>
    \/ \E r \in Reqs : Runnable(r) /\ ChatEntry(r) /\ UNCHANGED wvars
    \/ \E r \in Reqs : Runnable(r) /\ ChatResumes(r) /\ UNCHANGED <<gvars, wvars>>
    \/ \E r \in Reqs : Runnable(r) /\ GemIterate(r) /\ UNCHANGED <<wvars, hvars>>
    \/ \E r \in Reqs : Runnable(r) /\ GemWake(r) /\ UNCHANGED <<wvars, hvars>>
    \/ \E r \in Reqs : Runnable(r) /\ GemFetchRejects(r) /\ UNCHANGED <<wvars, hvars>>
    \/ \E r \in Reqs : Runnable(r) /\ GemFetchResponds(r) /\ UNCHANGED <<wvars, hvars>>
    \/ \E r \in Reqs : Runnable(r) /\ GemJson(r, SampleBodies) /\ UNCHANGED <<wvars, hvars>>

SpecConcurrent == AppInit /\ [][ConcurrentNext]_vars

(* ------------------------------------------------------------------ *)
(* Properties of fetchWeather                                          *)
(* ------------------------------------------------------------------ *)

\* The day label of entry i of the upstream list of invocation r.
LabelAt(r, i) == WeekdayLabel(wdata[r].list[i].dt, wlang[r])

\* The positions of the upstream list whose day label no earlier entry has.
FirstOccurrences(r) ==
    {i \in DOMAIN wdata[r].list : \A j \in 1..(i - 1) : LabelAt(r, j) # LabelAt(r, i)}

\* The k-th of those positions, in list order.
KthFirstOccurrence(r, k) ==
    CHOOSE i \in FirstOccurrences(r) :
        Cardinality({j \in FirstOccurrences(r) : j < i}) = k - 1

\* C9: the forecast fetchWeather returns has at most 5 entries with pairwise
\* distinct day labels, and is exactly the first-occurring entries of the first
\* (up to 5) distinct day labels of the upstream list, in the order those
\* labels first appear: entry k carries the label, the rounded temperature and
\* the condition of the k-th first occurrence, never those of a later entry of
\* the same day.
C9_ForecastIsFirstPerDay ==
    \A r \in Reqs :
        wpc[r] = "returned" =>
            LET fc == wvalue[r].forecast
                list == wdata[r].list
            IN  /\ Len(fc) <= 5
                /\ \A a, b \in DOMAIN fc : a # b => fc[a].date # fc[b].date
                /\ Len(fc) = Min(5, Cardinality(FirstOccurrences(r)))
                /\ \A k \in DOMAIN fc :
                    LET i == KthFirstOccurrence(r, k)
                    IN  /\ fc[k].date = LabelAt(r, i)
                        /\ fc[k].temp * 10 - 5 <= list[i].temp10
                        /\ list[i].temp10 < fc[k].temp * 10 + 5
                        /\ fc[k].condition = list[i].cond

\* A returned forecast cut at 5 days, from a list that opens with two entries
\* of one day and goes on to a sixth day.
C9_Witness ==
    \E r \in Reqs :
        /\ wpc[r] = "returned"
        /\ Len(wvalue[r].forecast) = 5
        /\ Cardinality(FirstOccurrences(r)) = 6
        /\ Len(wdata[r].list) = 7
        /\ LabelAt(r, 1) = LabelAt(r, 2)

(* ------------------------------------------------------------------ *)
(* Properties of callGeminiAPI                                         *)
(* ------------------------------------------------------------------ *)

Started(r) == gpc[r] # "idle"
Ended(r) == gpc[r] \in {"returned", "thrown"}

EventsAt(r, kinds) == {i \in DOMAIN gtrace[r] : gtrace[r][i].ev \in kinds}
Calls(r) == Cardinality(EventsAt(r, {"call"}))
Sleeps(r) == Cardinality(EventsAt(r, {"sleep"}))

\* Event i is the last one, or nothing after it is a sleep or an upstream call.
NothingUpstreamAfter(r, i) ==
    \A j \in DOMAIN gtrace[r] : j > i => gtrace[r][j].ev \notin {"sleep", "call"}

\* C1: one invocation of callGeminiAPI with the default retry budget makes at
\* most 3 upstream calls whatever the upstream answers, and it always ends:
\* until it has returned or thrown it can take a step, and each step extends
\* the bounded record of at most 3 attempts.
C1_AtMostThreeCalls ==
    \A r \in Reqs :
        Started(r) =>
            /\ Calls(r) <= 3
            /\ attempt[r] <= 3
            /\ \A i \in DOMAIN gtrace[r] : gtrace[r][i].attempt \in 0..2
            /\ Ended(r) \/ ENABLED GemStep(r)

C1_Witness ==
    \E r \in Reqs : Calls(r) = 3 /\ gpc[r] = "thrown"

\* C2: a non-success status other than 429 makes the invocation fail at once,
\* with no sleep and no upstream call after that response, at any attempt.
C2_OtherStatusFailsAtOnce ==
    \A r \in Reqs : \A i \in DOMAIN gtrace[r] :
        LET e == gtrace[r][i]
        IN  (e.ev = "reply" /\ ~ResponseOk(e.status) /\ e.status # 429) =>
                /\ gpc[r] = "thrown"
                /\ NothingUpstreamAfter(r, i)

\* C3: no sleep precedes attempt 0; every attempt n >= 1 is preceded by exactly
\* one sleep, of min(1000 * 2^n, 5000) ms, right before its upstream call; no
\* sleep exceeds 5000 ms; and an invocation that ended slept once less than it
\* called upstream.
C3_BackoffBeforeRetries ==
    \A r \in Reqs :
        /\ \A i \in DOMAIN gtrace[r] :
            LET e == gtrace[r][i]
            IN  /\ e.ev = "sleep" =>
                    /\ e.attempt >= 1
                    /\ e.ms = (IF e.attempt = 1 THEN 2000 ELSE IF e.attempt = 2 THEN 4000 ELSE 5000)
                    /\ e.ms <= 5000
                    /\ \A j \in DOMAIN gtrace[r] :
                        (gtrace[r][j].ev = "sleep" /\ gtrace[r][j].attempt = e.attempt) => j = i
                /\ e.ev = "call" =>
                    IF e.attempt = 0
                    THEN i = 1
                    ELSE /\ i > 1
                         /\ gtrace[r][i - 1].ev = "sleep"
                         /\ gtrace[r][i - 1].attempt = e.attempt
        /\ Ended(r) => Sleeps(r) = Calls(r) - 1
        /\ Sleeps(r) <= Calls(r)

C3_Witness ==
    \E r \in Reqs :
        /\ Ended(r)
        /\ Calls(r) = 3
        /\ \E i \in DOMAIN gtrace[r] : gtrace[r][i].ev = "sleep" /\ gtrace[r][i].attempt = 2

\* Event i is an HTTP 429 reply or a transport error of attempt 0 or 1.
TransientFailureAt(r, i) ==
    LET e == gtrace[r][i]
    IN  /\ e.attempt < 2
        /\ \/ e.ev = "reject"
           \/ e.ev = "reply" /\ e.status = 429

\* C4: an HTTP 429 or a transport error at attempt 0 or 1 does not fail the
\* invocation: the loop goes on to the next attempt, whose backoff sleep and
\* upstream call are the next two events, and the invocation cannot end before
\* that call is made.
C4_TransientFailureIsRetried ==
    \A r \in Reqs : \A i \in DOMAIN gtrace[r] :
        TransientFailureAt(r, i) =>
            LET n == gtrace[r][i].attempt
                len == Len(gtrace[r])
            IN  /\ i = len => gpc[r] = "loop" /\ attempt[r] = n + 1
                /\ i + 1 <= len =>
                    gtrace[r][i + 1].ev = "sleep" /\ gtrace[r][i + 1].attempt = n + 1
                /\ i + 1 = len => gpc[r] = "sleeping"
                /\ i + 2 <= len =>
                    gtrace[r][i + 2].ev = "call" /\ gtrace[r][i + 2].attempt = n + 1
                /\ Ended(r) => i + 2 <= len
                /\ Ended(r) \/ ENABLED GemStep(r)

C4_Witness ==
    \E r \in Reqs : \E i \in DOMAIN gtrace[r] :
        /\ TransientFailureAt(r, i)
        /\ gtrace[r][i].attempt = 1
        /\ gtrace[r][i].ev = "reply"
        /\ i + 2 <= Len(gtrace[r])
        /\ gtrace[r][i + 2].ev = "call"

\* The error object a failed attempt's last event stands for.
ErrorOfEvent(e) ==
    IF e.ev = "reject" THEN TransportError(e.attempt)
    ELSE IF e.ev = "unparsed" THEN ParseError(e.attempt)
    ELSE HttpError(e.status, e.attempt)

FailureEvent(e) ==
    \/ e.ev \in {"reject", "unparsed"}
    \/ e.ev = "reply" /\ ~ResponseOk(e.status)

\* C5: when all 3 attempts fail the invocation throws, returns no value, and
\* the error thrown is the third attempt's own error (also when that attempt
\* was answered with HTTP 429), not an earlier attempt's.
C5_LastErrorSurfaces ==
    \A r \in Reqs :
        LET len == Len(gtrace[r])
        IN  (Calls(r) = 3 /\ len > 0 /\ FailureEvent(gtrace[r][len])) =>
                /\ gpc[r] = "thrown"
                /\ gvalue[r] = Undefined
                /\ gerror[r] = ErrorOfEvent(gtrace[r][len])
                /\ gerror[r].at = 2

C5_Witness ==
    \E r \in Reqs :
        LET len == Len(gtrace[r])
        IN  /\ Calls(r) = 3
            /\ len > 0
            /\ gtrace[r][len].ev = "reply"
            /\ gtrace[r][len].status = 429
            /\ gpc[r] = "thrown"
            /\ lastError[r].at = 2

Answered(r) == hpc[r] = "done"

WeatherRoutes == {GetWeather, PostWeather}

\* The request names no place: no city in the query string, no query in the body.
NoLocation(q) ==
    IF q.route = GetWeather THEN ~Truthy(q.city) ELSE ~Truthy(q.query)

\* C7: on GET and POST /api/weather a request without a location is answered
\* with HTTP 400, and no upstream weather call is made for it.
C7_NoLocationIs400 ==
    \A r \in Reqs :
        (Answered(r) /\ sent[r].route \in WeatherRoutes /\ NoLocation(sent[r])) =>
            /\ Len(res[r]) = 1
            /\ res[r][1].status = 400
            /\ atrace[r] = <<>>
            /\ wtrace[r] = <<>>

\* The upstream weather call of request r was made and failed; `notFound`
\* when the provider answered 404.
UpstreamFailed(r) ==
    IF sent[r].route = GetWeather
    THEN /\ Len(atrace[r]) = 2
         /\ ~(atrace[r][2].ev = "data" /\ atrace[r][2].complete)
    ELSE wpc[r] = "thrown"

UpstreamNotFound(r) ==
    IF sent[r].route = GetWeather
    THEN Len(atrace[r]) = 2 /\ atrace[r][2].ev = "status" /\ atrace[r][2].status = 404
    ELSE \E i \in DOMAIN wtrace[r] : wtrace[r][i].ev = "reply" /\ wtrace[r][i].status = 404

\* C8: on GET and POST /api/weather, for a request with a location, the answer
\* is HTTP 404 when the provider reports the location as not found and HTTP
\* 500 for every other upstream failure.
C8_NotFoundIs404 ==
    \A r \in Reqs :
        (Answered(r) /\ sent[r].route \in WeatherRoutes /\ UpstreamFailed(r)) =>
            /\ Len(res[r]) = 1
            /\ res[r][1].status = (IF UpstreamNotFound(r) THEN 404 ELSE 500)

RECURSIVE DropLeading(_, _)
DropLeading(s, chars) ==
    IF s # <<>> /\ Head(s) \in chars THEN DropLeading(Tail(s), chars) ELSE s

RECURSIVE DropTrailing(_, _)
DropTrailing(s, chars) ==
    IF s # <<>> /\ s[Len(s)] \in chars
    THEN DropTrailing(SubSeq(s, 1, Len(s) - 1), chars)
    ELSE s

\* A text without the whitespace and quote characters around it.
Unwrapped(s) == DropTrailing(DropLeading(s, Quotes \cup {" "}), Quotes \cup {" "})

OnlyWhitespace(s) == \A i \in DOMAIN s : s[i] = " "

\* C10: POST /api/extract-city with a non-empty query answers a null city when
\* the language model's result is "NONE", absent, empty or only whitespace; for
\* every other result it answers the result without its surrounding whitespace
\* and quote characters, never the empty string.
C10_CityNullOrUnwrapped ==
    \A r \in Reqs :
        (Answered(r) /\ sent[r].route = ExtractCity /\ gpc[r] = "returned") =>
            LET result == gvalue[r]
                city == res[r][1].body.city
            IN  /\ Len(res[r]) = 1
                /\ res[r][1].status = 200
                /\ IF result.t # "string" \/ result.text = NONE \/ OnlyWhitespace(result.text)
                   THEN city = Null
                   ELSE city = Str(Unwrapped(result.text)) /\ city.text # <<>>

\* A chat request whose body carries a non-empty message.
ChatWithMessage(r) == sent[r].route = Chat /\ Truthy(sent[r].message)

\* C11: a POST /api/chat request with a non-empty message invokes the
\* language-model client exactly once, that invocation makes at most 3 upstream
\* calls, and the one response is {text} carrying the generated text when the
\* client returned text and HTTP 500 when the client threw.
C11_ChatInvokesOnce ==
    \A r \in Reqs :
        (Answered(r) /\ ChatWithMessage(r)) =>
            /\ Len(gargs[r]) = 1
            /\ Calls(r) <= 3
            /\ Len(res[r]) = 1
            /\ (gpc[r] = "returned" /\ Truthy(gvalue[r])) => res[r][1] = TextResponse(gvalue[r])
            /\ gpc[r] = "thrown" => res[r][1].status = 500

\* The same for a handler that was given a parsed body: what lines 267-327
\* do once the destructuring at line 265 has succeeded.
ChatGivenBodyInvokesOnce ==
    \A r \in Reqs :
        (Answered(r) /\ ChatWithMessage(r) /\ parsed[r]) =>
            /\ Len(gargs[r]) = 1
            /\ Calls(r) <= 3
            /\ Len(res[r]) = 1
            /\ gpc[r] \in {"returned", "thrown"}
            /\ (gpc[r] = "returned" /\ Truthy(gvalue[r])) => res[r][1] = TextResponse(gvalue[r])
            /\ gpc[r] = "thrown" => res[r][1].status = 500

\* The request's invocation of the language-model client threw.
GenerationFailed(r) == Len(gargs[r]) > 0 /\ gpc[r] = "thrown"

\* C12: on every route that invokes the language-model client (POST
\* /api/extract-city and POST /api/chat), a request whose invocation threw is
\* answered once, with HTTP 500, never with a success response.
C12_FailedGenerationIs500 ==
    \A r \in Reqs :
        (Answered(r) /\ GenerationFailed(r)) =>
            /\ Len(res[r]) = 1
            /\ res[r][1].status = 500
            /\ res[r][1].body.kind = "error"

(* ------------------------------------------------------------------ *)
(* Properties of requests handled at the same time                     *)
(* ------------------------------------------------------------------ *)

\* What the event loop can run for request r.
StepOf(r) ==
    /\ Runnable(r)
    /\ \/ GemStep(r)
       \/ FwFetchRejects(r) \/ FwFetchResponds(r) \/ FwJson(r, SamplePayloads)
       \/ ArriveParsed(r)
       \/ PostWeatherEntry(r) \/ PostWeatherResumes(r)
       \/ ExtractCityEntry(r) \/ ExtractCityResumes(r)
       \/ ChatEntry(r) \/ ChatResumes(r)

\* The handler of request r waits for a timer or for the network.
Suspended(r) ==
    \/ hpc[r] = "awaitGemini" /\ gpc[r] \in {"sleeping", "fetching", "parsing"}
    \/ hpc[r] = "awaitWeather" /\ wpc[r] \in {"fetching", "parsing"}

\* The number of upstream calls in the record of request r before event i.
CallsBefore(r, i) == Cardinality({j \in EventsAt(r, {"call"}) : j < i})

\* The response the handler owes request r, worked out from what the client
\* sent and from the outcomes of the request's own upstream calls alone.
OwnResponse(r) ==
    IF sent[r].route = PostWeather
    THEN LET last == wtrace[r][Len(wtrace[r])]
             built == BuildSnapshot(wdata[r], LangOf(sent[r].lang))
         IN  IF last.ev = "reply" /\ ResponseOk(last.status) /\ wdata[r].json /\ ~built.threw
             THEN [status |-> 200,
                   body |-> [NoResponseBody EXCEPT !.kind = "weather", !.weather = built.value]]
             ELSE ErrorResponse(500, "Weather unavailable")
    ELSE LET last == gtrace[r][Len(gtrace[r])]
             text == ExtractText(gdata[r])
         IN  IF sent[r].route = Chat
             THEN IF last.ev # "parsed" THEN ErrorResponse(500, ErrorMessage(ErrorOfEvent(last)))
                  ELSE IF Truthy(text) THEN TextResponse(text)
                  ELSE ErrorResponse(500, "No response from AI")
             ELSE IF last.ev # "parsed" THEN CityResponse(Null)
                  ELSE CityResponse(CityOf(text))

\* C13: of two requests handled at the same time, one that is not answered yet
\* can always take its next step, whatever the other is doing, in particular
\* while the other is suspended in a backoff sleep or awaits an upstream call
\* (its steps being at most 3 attempts, it can so complete); the attempts of a request's
\* invocation count from 0 in its own record whatever the other request does;
\* and the one response of a request is the one its own input and the outcomes
\* of its own upstream calls determine.
C13_RequestsAreIndependent ==
    \A r \in Reqs :
        /\ ~Answered(r) => ENABLED StepOf(r)
        /\ \A i \in DOMAIN gtrace[r] :
              gtrace[r][i].ev = "call" => gtrace[r][i].attempt = CallsBefore(r, i)
        /\ \A i \in DOMAIN gtrace[r] :
              gtrace[r][i].ev = "sleep" =>
                  gtrace[r][i].ms = DelayMs(CallsBefore(r, i)) /\ CallsBefore(r, i) > 0
        /\ Answered(r) => res[r] = <<OwnResponse(r)>>

\* Request 1 is in the backoff sleep before its second attempt; request 2,
\* with another route and other upstream outcomes, has used all three of its
\* attempts and has its answer.
C13_Witness ==
    /\ Suspended(1) /\ gpc[1] = "sleeping" /\ attempt[1] = 1
    /\ sent[1].route = Chat
    /\ sent[2].route = ExtractCity
    /\ Answered(2) /\ Calls(2) = 3 /\ gpc[2] = "returned"
    /\ res[2] = <<CityResponse(SomeText)>>

(* ------------------------------------------------------------------ *)
(* Properties of the route table                                       *)
(* ------------------------------------------------------------------ *)

\* C14: a POST /api/translate request carrying messages and a target language
\* name is answered by one invocation of the language-model client in
\* structured-output (JSON) mode, and the answer is a success response passing
\* the invocation's result through.
C14_TranslateIsServed ==
    \A r \in Reqs :
        (Answered(r) /\ sent[r].route = Translate
            /\ sent[r].messages /\ Truthy(sent[r].targetLangName)) =>
            /\ Len(gargs[r]) = 1
            /\ gargs[r][1].jsonMode
            /\ Len(res[r]) = 1
            /\ res[r][1].status = 200

(* ------------------------------------------------------------------ *)
(* Properties of fetchWeather's failures                               *)
(* ------------------------------------------------------------------ *)

\* The payload has all that a WeatherData is built from: a non-empty list of
\* entries with their main/weather/sys/wind objects, and a named city.
WellFormed(data) ==
    /\ data.json /\ data.hasList /\ data.hasCity /\ data.hasName
    /\ data.list # <<>>
    /\ \A i \in DOMAIN data.list : data.list[i].complete

\* The upstream call of invocation r has failed: a transport error, a
\* non-success status, or a payload that is not well formed.
UpstreamUnavailable(r) ==
    LET last == wtrace[r][Len(wtrace[r])]
    IN  \/ last.ev = "reject"
        \/ last.ev = "reply" /\ ~ResponseOk(last.status)
        \/ last.ev = "reply" /\ wpc[r] # "parsing" /\ ~WellFormed(wdata[r])

\* Every field of the WeatherData is set.
CompleteSnapshot(w) == w.set /\ w.location # "" /\ w.condition # ""

\* C15: an invocation of fetchWeather that has ended either returned a
\* complete WeatherData or threw the error "Weather unavailable" and returned
\* nothing; it threw whenever the upstream answered with a transport error, a
\* non-success status or a malformed payload (an empty list included).
C15_SnapshotOrUnavailable ==
    \A r \in Reqs :
        wpc[r] \in {"returned", "thrown"} =>
            /\ wpc[r] = "thrown" => werror[r] = "Weather unavailable" /\ wvalue[r] = NoSnapshot
            /\ wpc[r] = "returned" => CompleteSnapshot(wvalue[r]) /\ werror[r] = ""
            /\ UpstreamUnavailable(r) => wpc[r] = "thrown"

(* ------------------------------------------------------------------ *)
(* Properties of every route handler                                   *)
(* ------------------------------------------------------------------ *)

\* The upstream call the handler of request r awaits has settled.
UpstreamSettled(r) ==
    \/ hpc[r] = "awaitGemini" /\ Ended(r)
    \/ hpc[r] = "awaitWeather" /\ wpc[r] \in {"returned", "thrown"}

\* The synchronous steps of the handler of request r.
HandlerStep(r) ==
    \/ GetWeatherEntry(r) \/ GetWeatherSettles(r)
    \/ PostWeatherEntry(r) \/ PostWeatherResumes(r)
    \/ ExtractCityEntry(r) \/ ExtractCityResumes(r)
    \/ ChatEntry(r) \/ ChatResumes(r)

\* C16: each of the four route handlers sends exactly one response per
\* request, whatever the request carries and whatever its upstream calls
\* answer: never a second response, a handler that is over has sent one, and a
\* handler that has been entered, or whose upstream call has settled, or that
\* awaits axios, can take the step that sends the response or goes on.
C16_ExactlyOneResponse ==
    \A r \in Reqs :
        /\ Len(res[r]) <= 1
        /\ Answered(r) <=> Len(res[r]) = 1
        /\ hpc[r] \in {"none", "entered", "awaitAxios", "awaitWeather", "awaitGemini", "done"}
        /\ (hpc[r] \in {"entered", "awaitAxios"} \/ UpstreamSettled(r)) => ENABLED HandlerStep(r)
        /\ (hpc[r] = "awaitAxios" \/ UpstreamSettled(r)) =>
              ENABLED (HandlerStep(r) /\ Len(res'[r]) = 1)

\* A chat request answered after its invocation used all three attempts, and
\* answered once.
C16_Witness ==
    \E r \in Reqs :
        /\ Answered(r) /\ sent[r].route = Chat /\ parsed[r]
        /\ Calls(r) = 3 /\ gpc[r] = "thrown"
        /\ Len(res[r]) = 1

(* ------------------------------------------------------------------ *)
(* Properties of the middleware order                                  *)
(* ------------------------------------------------------------------ *)

PostRoutes == {PostWeather, ExtractCity, Chat}

\* The JSON body of the request carries a non-empty query (message for chat).
CarriesInput(q) ==
    IF q.route = Chat THEN Truthy(q.message) ELSE Truthy(q.query)

\* The handler of request r has called its upstream client.
ReachedUpstream(r) ==
    IF sent[r].route = PostWeather THEN wtrace[r] # <<>> ELSE gargs[r] # <<>>

\* C17: on POST /api/weather, /api/extract-city and /api/chat the JSON body
\* parser has run when the handler runs, so a request whose body carries a
\* non-empty query/message has req.body set and gets as far as the upstream
\* client (fetchWeather or callGeminiAPI): it is not answered before.
C17_BodyParsedBeforeHandler ==
    \A r \in Reqs :
        (sent[r].route \in PostRoutes /\ CarriesInput(sent[r])) =>
            /\ hpc[r] # "none" => parsed[r]
            /\ Answered(r) => ReachedUpstream(r)

====
